---- MODULE Spec2Model ----
(***************************************************************************)
(* Model of the IPv4 / IPv6 literal validators of src/index.ts.            *)
(*                                                                         *)
(* A JavaScript string is a sequence of one-character strings, so that     *)
(* String.prototype.split and the two regular expressions are computed     *)
(* character by character.  A candidate value is a record                  *)
(*     [type |-> <result of typeof>, chars |-> <the characters>]           *)
(* and a non-string candidate carries no characters.                       *)
(***************************************************************************)
EXTENDS Integers, Sequences, FiniteSets, TLC

VARIABLES
    check,      \* the validator under test: "v6" (isValidIp) or "v4" (the ipV4Pattern check)
    candidate,  \* the value handed to it
    valid,      \* how the call completed: "pending", "true", "false" or "TypeError"
    parts,      \* the tuple parsePossibleIpString returned to isValidIp (<<>> when not called)
    last        \* what value.pop() / right.pop() gave the component validator

vars == <<check, candidate, valid, parts, last>>

(***************************************************************************)
(* Characters                                                              *)
(***************************************************************************)
Digits == {"0", "1", "2", "3", "4", "5", "6", "7", "8", "9"}

HexDigits == Digits \cup {"A", "B", "C", "D", "E", "F", "a", "b", "c", "d", "e", "f"}

Str(chars) == [type |-> "string", chars |-> chars]

Bool(b) == IF b THEN "true" ELSE "false"

(***************************************************************************)
(* value.split(sep): the substrings between the occurrences of sep; the    *)
(* empty string splits into one empty substring.                           *)
(***************************************************************************)
RECURSIVE SplitFrom(_, _, _, _)
SplitFrom(chars, sep, start, i) ==
    IF i > Len(chars)
    THEN <<SubSeq(chars, start, Len(chars))>>
    ELSE IF chars[i] = sep
         THEN <<SubSeq(chars, start, i - 1)>> \o SplitFrom(chars, sep, i + 1, i + 1)
         ELSE SplitFrom(chars, sep, start, i + 1)

split(chars, sep) == SplitFrom(chars, sep, 1, 1)

\* indexOf mistaken for lastIndexOf
lastIndexOf(arr, x) ==
    IF \E i \in 1..Len(arr) : arr[i] = x
    THEN (CHOOSE i \in 1..Len(arr) : arr[i] = x /\ \A j \in (i + 1)..Len(arr) : arr[j] # x) - 1
    ELSE -1

\* Array.prototype.indexOf, 0-based, -1 when absent.
indexOf(arr, x) ==
    IF \E i \in 1..Len(arr) : arr[i] = x
    THEN (CHOOSE i \in 1..Len(arr) : arr[i] = x /\ \A j \in 1..(i - 1) : arr[j] # x) - 1
    ELSE -1

\* Array.prototype.pop: the array left behind and the element removed
\* (undefined, defined = FALSE, on an empty array).
pop(arr) ==
    IF arr = <<>>
    THEN [rest |-> <<>>, defined |-> FALSE, value |-> <<>>]
    ELSE [rest |-> SubSeq(arr, 1, Len(arr) - 1), defined |-> TRUE, value |-> arr[Len(arr)]]

\* last ?? ''
orEmpty(p) == IF p.defined THEN p.value ELSE <<>>

(***************************************************************************)
(* ipPair = /^[0-9A-Fa-f]{1,4}$/                                           *)
(***************************************************************************)
ipPairMin == 1
ipPairMax == 4

\* ipPair with the quantifier {0,4}
ipPairOrEmpty(s) ==
    /\ Len(s) <= ipPairMax
    /\ \A i \in 1..Len(s) : s[i] \in HexDigits

ipPair(s) ==
    /\ Len(s) >= ipPairMin
    /\ Len(s) <= ipPairMax
    /\ \A i \in 1..Len(s) : s[i] \in HexDigits

(***************************************************************************)
(* ipV4Pattern: one octet is one of the five alternatives                  *)
(*   25[0-5] | 2[0-4][0-9] | 1[0-9]{2} | [1-9][0-9] | [0-9]                *)
(* and the pattern is octet(\.octet){3}, anchored at both ends.            *)
(***************************************************************************)
\* octetAlt with [0-9][0-9] for its two-digit alternative
octetAltLeadingZero(s) ==
    \/ Len(s) = 3 /\ s[1] = "2" /\ s[2] = "5" /\ s[3] \in {"0", "1", "2", "3", "4", "5"}
    \/ Len(s) = 3 /\ s[1] = "2" /\ s[2] \in {"0", "1", "2", "3", "4"} /\ s[3] \in Digits
    \/ Len(s) = 3 /\ s[1] = "1" /\ s[2] \in Digits /\ s[3] \in Digits
    \/ Len(s) = 2 /\ s[1] \in Digits /\ s[2] \in Digits
    \/ Len(s) = 1 /\ s[1] \in Digits

octetAlt(s) ==
    \/ Len(s) = 3 /\ s[1] = "2" /\ s[2] = "5" /\ s[3] \in {"0", "1", "2", "3", "4", "5"}
    \/ Len(s) = 3 /\ s[1] = "2" /\ s[2] \in {"0", "1", "2", "3", "4"} /\ s[3] \in Digits
    \/ Len(s) = 3 /\ s[1] = "1" /\ s[2] \in Digits /\ s[3] \in Digits
    \/ Len(s) = 2 /\ s[1] \in (Digits \ {"0"}) /\ s[2] \in Digits
    \/ Len(s) = 1 /\ s[1] \in Digits

ipV4Repeat == 3

\* s[from..] matches (\.octet){n} up to the end of the string
RECURSIVE dotOctets(_, _, _)
dotOctets(s, from, n) ==
    IF n = 0
    THEN from = Len(s) + 1
    ELSE /\ from <= Len(s)
         /\ s[from] = "."
         /\ \E to \in (from + 1)..Len(s) :
                /\ octetAlt(SubSeq(s, from + 1, to))
                /\ dotOctets(s, to + 1, n - 1)

ipV4Pattern(s) ==
    \E to \in 1..Len(s) :
        /\ octetAlt(SubSeq(s, 1, to))
        /\ dotOctets(s, to + 1, ipV4Repeat)

(***************************************************************************)
(* parsePossibleIpString                                                   *)
(***************************************************************************)
trimLeading(arr) ==
    IF Len(arr) > 0 /\ arr[1] = <<>> THEN Tail(arr) ELSE arr

trimTrailing(arr) ==
    IF Len(arr) > 0 /\ arr[Len(arr)] = <<>> THEN SubSeq(arr, 1, Len(arr) - 1) ELSE arr

\* parsePossibleIpString without the zero added to the second array
parseWithoutZero(chars) ==
    LET trimmed == trimTrailing(trimLeading(split(chars, ":")))
        sep == indexOf(trimmed, <<>>)
    IN  IF sep >= 0
        THEN <<SubSeq(trimmed, 1, sep), SubSeq(trimmed, sep + 2, Len(trimmed))>>
        ELSE <<trimmed>>

parsePossibleIpString(chars) ==
    LET trimmed == trimTrailing(trimLeading(split(chars, ":")))
        sep == indexOf(trimmed, <<>>)
    IN  IF sep >= 0
        THEN <<SubSeq(trimmed, 1, sep),
               <<(<<"0">>)>> \o SubSeq(trimmed, sep + 2, Len(trimmed))>>
        ELSE <<trimmed>>

(***************************************************************************)
(* isValidFullIp, isValidCompactIp, isValidIp                              *)
(***************************************************************************)
fullV4Count == 6
fullV6Count == 7

\* isValidFullIp without the test of the popped last pair
isValidFullIpLastUnchecked(value) ==
    LET p == pop(value)
    IN  IF ipV4Pattern(orEmpty(p))
        THEN /\ Len(p.rest) = fullV4Count
             /\ \A i \in 1..Len(p.rest) : ipPair(p.rest[i])
        ELSE /\ Len(p.rest) = fullV6Count
             /\ \A i \in 1..Len(p.rest) : ipPair(p.rest[i])

isValidFullIp(value) ==
    LET p == pop(value)
    IN  IF ipV4Pattern(orEmpty(p))
        THEN /\ Len(p.rest) = fullV4Count
             /\ \A i \in 1..Len(p.rest) : ipPair(p.rest[i])
        ELSE /\ Len(p.rest) = fullV6Count
             /\ \A i \in 1..Len(p.rest) : ipPair(p.rest[i])
             /\ ipPair(orEmpty(p))

compactV4Count == 6
compactV6Count == 7

\* isValidCompactIp counting as if the last pair had not been popped
isValidCompactIpOffByOne(left, right) ==
    LET p == pop(right)
    IN  IF ipV4Pattern(orEmpty(p))
        THEN /\ Len(left) + Len(p.rest) <= compactV4Count + 1
             /\ \A i \in 1..Len(left) : ipPair(left[i])
             /\ \A i \in 1..Len(p.rest) : ipPair(p.rest[i])
        ELSE /\ Len(left) + Len(p.rest) <= compactV6Count + 1
             /\ \A i \in 1..Len(left) : ipPair(left[i])
             /\ \A i \in 1..Len(p.rest) : ipPair(p.rest[i])
             /\ ipPair(orEmpty(p))

isValidCompactIp(left, right) ==
    LET p == pop(right)
    IN  IF ipV4Pattern(orEmpty(p))
        THEN /\ Len(left) + Len(p.rest) <= compactV4Count
             /\ \A i \in 1..Len(left) : ipPair(left[i])
             /\ \A i \in 1..Len(p.rest) : ipPair(p.rest[i])
        ELSE /\ Len(left) + Len(p.rest) <= compactV6Count
             /\ \A i \in 1..Len(left) : ipPair(left[i])
             /\ \A i \in 1..Len(p.rest) : ipPair(p.rest[i])
             /\ ipPair(orEmpty(p))

ZeroAddress == Str(<<":", ":">>)

\* isValidIp below its zero-address short-circuit
isValidIpGeneral(value) ==
    IF value.type # "string"
    THEN "false"
    ELSE LET ps == parsePossibleIpString(value.chars)
         IN  IF Len(ps) = 1
             THEN Bool(isValidFullIp(ps[1]))
             ELSE Bool(isValidCompactIp(ps[1], ps[2]))

\* isValidIp without its typeof test: split is not a function of a non-string
isValidIpNoTypeof(value) ==
    IF value = ZeroAddress THEN "true"
    ELSE IF value.type # "string" THEN "TypeError"
    ELSE isValidIpGeneral(value)

isValidIp(value) ==
    IF value = ZeroAddress THEN "true" ELSE isValidIpGeneral(value)

\* z.string().regex(ipV4Pattern).safeParse(value).success
isValidIPv4(value) ==
    IF value.type # "string" THEN "false" ELSE Bool(ipV4Pattern(value.chars))

(***************************************************************************)
(* Candidate values.  The non-string candidates are the ones of the test   *)
(* tables; typeof null, {} and [] is "object".                             *)
(***************************************************************************)
NonStrings ==
    {[type |-> t, chars |-> <<>>] :
        t \in {"boolean", "object", "undefined", "symbol", "number", "bigint"}}

RECURSIVE join(_, _)
join(arr, sep) ==
    IF Len(arr) = 0 THEN <<>>
    ELSE IF Len(arr) = 1 THEN arr[1]
    ELSE arr[1] \o <<sep>> \o join(Tail(arr), sep)

\* c is the string of n pieces joined by sep, each the usual one but for at most odd of
\* them, drawn from unusual.
Pieces(c, n, odd, usual, unusual, sep) ==
    \E where \in {w \in SUBSET (1..n) : Cardinality(w) <= odd} :
        \E f \in [where -> unusual] :
            c = Str(join([j \in 1..n |-> IF j \in where THEN f[j] ELSE usual], sep))

\* The usual piece everywhere, but v at position i and nothing at position e (when in 1..n).
OneOff(n, i, e, usual, v) ==
    [j \in 1..n |-> IF j = i THEN v ELSE IF j = e THEN <<>> ELSE usual]

MaxParts == 10      \* colon-delimited components of a candidate
MaxOdd == 3         \* of them, components that are not the plain hextet
MaxFields == 5      \* dot-delimited fields of a candidate
MaxShort == 5       \* length of the candidates enumerated character by character

Quad == <<"1", "9", "2", ".", "1", "6", "8", ".", "0", ".", "1">>

\* Colon-delimited components: hextets but for a few that are empty, malformed or a dotted quad.
V6Strings(c, n) == Pieces(c, n, MaxOdd, <<"F">>, {<<>>, <<"G">>, Quad}, ":")

\* One component of any kind among hextets, with or without one empty component.
OddParts ==
    {<<"0">>, <<"0", "0">>, <<"0", "a", "F", "9">>, <<"a", "b", "c", "d">>,
     <<"1", "2", "3", "4", "5">>, <<"A", "B", "C", "D", "E">>, <<"g">>, <<"F", " ">>,
     <<"-", "1">>, <<"+", "1">>, <<"0", "x", "1">>, <<"0", ".", "0", ".", "0", ".", "0">>,
     <<"1", ".", "2", ".", "3">>, <<"1", ".", "2", ".", "3", ".", "2", "5", "6">>,
     <<"1", ".", "2", ".", "3", ".", "0", "4">>, <<"1", ".", "2", ".", "3", ".", "4", ".", "5">>}

V6OneOff(n) ==
    {join(OneOff(n, i, e, <<"F">>, v), ":") : i \in 1..n, e \in 0..n, v \in OddParts}

\* Dot-delimited fields.
V4Strings(c, n) ==
    Pieces(c, n, MaxOdd, <<"7">>,
           {<<>>, <<"0">>, <<"0", "7">>, <<"2", "5", "5">>, <<"2", "5", "6">>}, ".")

OddFields ==
    {<<"0", "0">>, <<"0", "0", "2">>, <<"9">>, <<"1", "0">>, <<"9", "9">>,
     <<"1", "0", "0">>, <<"1", "9", "9">>, <<"2", "0", "0">>, <<"2", "4", "9">>,
     <<"2", "5", "0">>, <<"2", "5", "9">>, <<"2", "6", "0">>, <<"3", "0", "0">>,
     <<"9", "9", "9">>, <<"0", "1", "9", "2">>, <<"1", "0", "0", "0">>, <<"1", "a">>,
     <<"F">>, <<" ", "1">>, <<"1", " ">>, <<"-", "1">>, <<"+", "1">>, <<"1", ":", "1">>}

V4OneOff(n) ==
    {join(OneOff(n, i, e, <<"1", "9", "2">>, v), ".") : i \in 1..n, e \in 0..n, v \in OddFields}

\* Every string of n characters over a small alphabet.
ShortStrings(n) == [1..n -> {":", ".", "1", "G"}]

\* The candidates of the IPv6 table and of the IPv4 table.
ipV6Tests(c) ==
    \/ c \in NonStrings
    \/ \E n \in 1..MaxParts : \E s \in V6OneOff(n) : c = Str(s)
    \/ \E n \in 0..MaxShort : \E s \in ShortStrings(n) : c = Str(s)
    \/ \E s \in {Quad} : c = Str(s)
    \/ \E n \in 1..MaxParts : V6Strings(c, n)
    \/ \E n \in 1..MaxFields : V4Strings(c, n)

ipV4Test(c) ==
    \/ c \in NonStrings
    \/ \E n \in 1..MaxFields : \E s \in V4OneOff(n) : c = Str(s)
    \/ \E n \in 0..MaxShort : \E s \in ShortStrings(n) : c = Str(s)
    \/ \E s \in {Quad} : c = Str(s)
    \/ \E n \in 1..MaxFields : V4Strings(c, n)

(***************************************************************************)
(* The state machine: a caller hands a candidate to one of the validators  *)
(* and receives its verdict.                                               *)
(***************************************************************************)
NotPopped == [rest |-> <<>>, defined |-> FALSE, value |-> <<>>]

Init ==
    /\ \/ check = "v6" /\ ipV6Tests(candidate)
       \/ check = "v4" /\ ipV4Test(candidate)
    /\ valid = "pending"
    /\ parts = <<>>
    /\ last = NotPopped

\* check(input) with check = isValidIp
ValidateIPv6 ==
    /\ check = "v6"
    /\ valid = "pending"
    /\ valid' = isValidIp(candidate)
    /\ parts' = IF candidate = ZeroAddress \/ candidate.type # "string"
                THEN <<>>
                ELSE parsePossibleIpString(candidate.chars)
    /\ last' = IF parts' = <<>> THEN NotPopped ELSE pop(parts'[Len(parts')])
    /\ UNCHANGED <<check, candidate>>

\* check(input) with check = value => z.string().regex(ipV4Pattern).safeParse(value).success
ValidateIPv4 ==
    /\ check = "v4"
    /\ valid = "pending"
    /\ valid' = isValidIPv4(candidate)
    /\ UNCHANGED <<check, candidate, parts, last>>

Next == ValidateIPv6 \/ ValidateIPv4

Spec == Init /\ [][Next]_vars

(***************************************************************************)
(* The vocabulary of the claims, stated on the characters of a string and  *)
(* independently of the validators' own helpers.                           *)
(***************************************************************************)
\* The pieces of chars between the occurrences of sep.
Fields(chars, sep) ==
    LET seps == {i \in 1..Len(chars) : chars[i] = sep}
        count == Cardinality(seps) + 1
        cut(k) == IF k = 0 THEN 0
                  ELSE IF k = count THEN Len(chars) + 1
                  ELSE CHOOSE i \in seps : Cardinality({j \in seps : j < i}) = k - 1
    IN  [k \in 1..count |-> SubSeq(chars, cut(k - 1) + 1, cut(k) - 1)]

\* 1 to 4 hexadecimal digits
Hextet(s) == Len(s) \in 1..4 /\ \A i \in 1..Len(s) : s[i] \in HexDigits

DigitValue(d) == CHOOSE v \in 0..9 : <<"0", "1", "2", "3", "4", "5", "6", "7", "8", "9">>[v + 1] = d

RECURSIVE Decimal(_)
Decimal(s) == IF s = <<>> THEN 0 ELSE 10 * Decimal(SubSeq(s, 1, Len(s) - 1)) + DigitValue(s[Len(s)])

\* the minimal-digit decimal numeral of an integer in 0..255
Octet(s) ==
    /\ s # <<>>
    /\ \A i \in 1..Len(s) : s[i] \in Digits
    /\ Len(s) = 1 \/ s[1] # "0"
    /\ Decimal(s) <= 255

DottedQuad(s) ==
    LET fs == Fields(s, ".") IN Len(fs) = 4 /\ \A k \in 1..4 : Octet(fs[k])

\* the positions at which '::' occurs
Markers(chars) == {i \in 1..(Len(chars) - 1) : chars[i] = ":" /\ chars[i + 1] = ":"}

Explicit(comps) == {k \in 1..Len(comps) : comps[k] # <<>>}

\* exactly one '::', and no empty component but the ones that '::' makes
OneMarker(chars) ==
    LET comps == Fields(chars, ":")
        n == Len(comps)
    IN  /\ Cardinality(Markers(chars)) = 1
        /\ LET i == CHOOSE m \in Markers(chars) : TRUE
               at == Cardinality({j \in 1..i : chars[j] = ":"}) + 1
           IN  (1..n) \ Explicit(comps) =
                   {at} \cup (IF i = 1 THEN {1} ELSE {}) \cup (IF i + 1 = Len(chars) THEN {n} ELSE {})

FullForm(chars) ==
    LET comps == Fields(chars, ":")
        n == Len(comps)
    IN  \/ n = 8 /\ \A k \in 1..8 : Hextet(comps[k])
        \/ n = 7 /\ (\A k \in 1..6 : Hextet(comps[k])) /\ DottedQuad(comps[7])

CompactForm(chars) ==
    LET comps == Fields(chars, ":")
        n == Len(comps)
        ex == Explicit(comps)
    IN  /\ OneMarker(chars)
        /\ \/ (\A k \in ex : Hextet(comps[k])) /\ Cardinality(ex) <= 7
           \/ /\ DottedQuad(comps[n])
              /\ \A k \in ex \ {n} : Hextet(comps[k])
              /\ Cardinality(ex \ {n}) <= 5

IPv6Literal(chars) == FullForm(chars) \/ CompactForm(chars)

LoneLeadingColon(chars) ==
    Len(chars) >= 1 /\ chars[1] = ":" /\ (Len(chars) = 1 \/ chars[2] # ":")

LoneTrailingColon(chars) ==
    Len(chars) >= 1 /\ chars[Len(chars)] = ":" /\ (Len(chars) = 1 \/ chars[Len(chars) - 1] # ":")

\* isValidIp has answered for a string
Answered6 == check = "v6" /\ valid # "pending" /\ candidate.type = "string"

\* the ipV4Pattern check has answered for a string
Answered4 == check = "v4" /\ valid # "pending" /\ candidate.type = "string"

(***************************************************************************)
(* C1: isValidIp accepts a string exactly when it is an IPv6 literal in    *)
(* full form (8 hextets, or 6 hextets and a dotted quad) or in compact     *)
(* form (one '::', at most 7 explicit hextets, or at most 5 and a final    *)
(* dotted quad).                                                           *)
(***************************************************************************)
C1_AcceptsExactlyIPv6Literals ==
    Answered6 => (valid = "true" <=> IPv6Literal(candidate.chars))

(***************************************************************************)
(* C8: a string that begins or ends with a single ':' (one that is not     *)
(* part of a '::') is rejected by isValidIp.                               *)
(***************************************************************************)
C8_LoneColonRejected ==
    (Answered6 /\ (LoneLeadingColon(candidate.chars) \/ LoneTrailingColon(candidate.chars)))
        => valid = "false"

(***************************************************************************)
(* C6: with a dotted quad as last component and hextets as the other       *)
(* explicit components, the full form is accepted exactly with 6 hextets   *)
(* before the quad and the compact form exactly with at most 5 explicit    *)
(* hextets; a dotted quad in any other position makes the result false.    *)
(***************************************************************************)
C6_SuffixArithmetic ==
    Answered6 =>
        LET comps == Fields(candidate.chars, ":")
            n == Len(comps)
            hextets == Explicit(comps) \ {n}
            marks == Cardinality(Markers(candidate.chars))
        IN  /\ (DottedQuad(comps[n]) /\ \A k \in hextets : Hextet(comps[k])) =>
                   /\ marks = 0 => (valid = "true" <=> Cardinality(hextets) = 6)
                   /\ marks = 1 => (valid = "true" <=> Cardinality(hextets) <= 5)
            /\ (\E k \in 1..(n - 1) : DottedQuad(comps[k])) => valid = "false"

(***************************************************************************)
(* C2: the IPv4 matcher accepts a string exactly when it is four fields    *)
(* separated by single dots, each the minimal-digit decimal numeral of an  *)
(* integer in 0..255.                                                      *)
(***************************************************************************)
C2_IPv4ExactlyDottedQuads ==
    Answered4 => (valid = "true" <=> DottedQuad(candidate.chars))

C2_Witness ==
    Answered4 /\ valid = "true" /\ DottedQuad(candidate.chars) /\ candidate # Str(Quad)

(***************************************************************************)
(* C3: both validators complete with a boolean for every candidate, never  *)
(* with an exception, and with false for every candidate that is not a     *)
(* string.                                                                 *)
(***************************************************************************)
C3_TotalAndRejectsNonStrings ==
    /\ valid \in {"pending", "true", "false"}
    /\ (valid # "pending" /\ candidate.type # "string") => valid = "false"

C3_Witness ==
    check = "v6" /\ candidate.type = "undefined" /\ valid = "false"

(***************************************************************************)
(* C4: n valid hextets joined by single colons are accepted exactly when   *)
(* n = 8; 8 non-empty components of which one is not a valid hextet are    *)
(* rejected.                                                               *)
(***************************************************************************)
C4_FullFormCount ==
    Answered6 =>
        LET comps == Fields(candidate.chars, ":")
            n == Len(comps)
        IN  /\ (\A k \in 1..n : Hextet(comps[k])) => (valid = "true" <=> n = 8)
            /\ (n = 8 /\ Explicit(comps) = 1..8 /\ \E k \in 1..8 : ~Hextet(comps[k]))
                   => valid = "false"

C4_Witness ==
    /\ Answered6
    /\ valid = "true"
    /\ LET comps == Fields(candidate.chars, ":")
       IN  Len(comps) = 8 /\ \A k \in 1..8 : Hextet(comps[k])

(***************************************************************************)
(* C5: a string with exactly one '::' (leading, interior or trailing) and  *)
(* valid hextets as its explicit components is accepted when it has at     *)
(* most 7 explicit hextets and rejected when it has 8 or more.             *)
(***************************************************************************)
C5_CompactionLowerBound ==
    Answered6 =>
        LET comps == Fields(candidate.chars, ":")
            ex == Explicit(comps)
        IN  (OneMarker(candidate.chars) /\ \A k \in ex : Hextet(comps[k]))
                => (valid = "true" <=> Cardinality(ex) <= 7)

C5_Witness ==
    /\ Answered6
    /\ valid = "false"
    /\ OneMarker(candidate.chars)
    /\ LET comps == Fields(candidate.chars, ":")
       IN  /\ \A k \in Explicit(comps) : Hextet(comps[k])
           /\ Cardinality(Explicit(comps)) = 8
           /\ comps[Len(comps)] = <<>>

(***************************************************************************)
(* C7: a string other than '::' in which '::' occurs at two or more        *)
(* positions is rejected by isValidIp.                                     *)
(***************************************************************************)
C7_AtMostOneMarker ==
    (Answered6 /\ candidate # ZeroAddress /\ Cardinality(Markers(candidate.chars)) >= 2)
        => valid = "false"

C7_Witness ==
    /\ Answered6
    /\ valid = "false"
    /\ candidate = Str(<<"F", ":", ":", "F", ":", ":", "F">>)

(***************************************************************************)
(* C9 as stated: isValidIp('::') is true, and the path below the           *)
(* short-circuit does not return true for '::'.                            *)
(***************************************************************************)
C9_ZeroAddressOnlyByShortCircuit ==
    (Answered6 /\ candidate = ZeroAddress)
        => (valid = "true" /\ isValidIpGeneral(candidate) # "true")

(***************************************************************************)
(* C9 amended: isValidIp('::') is true, and the path below the             *)
(* short-circuit returns true for '::' as well.                            *)
(***************************************************************************)
C9_ZeroAddressAlsoByGeneralPath ==
    (Answered6 /\ candidate = ZeroAddress)
        => (valid = "true" /\ isValidIpGeneral(candidate) = "true")

C9_Witness ==
    Answered6 /\ candidate = ZeroAddress /\ valid = "true" /\ parts = <<>>

(***************************************************************************)
(* C10: parsePossibleIpString returns one list without an empty element,   *)
(* or two lists of which the left has no empty element and the right       *)
(* starts with the synthetic '0'; so right.pop() is never undefined, and   *)
(* with a trailing '::' it is the synthetic '0'.                           *)
(***************************************************************************)
C10_ParsePostcondition ==
    candidate.type = "string" =>
        LET ps == parsePossibleIpString(candidate.chars)
        IN  /\ Len(ps) \in {1, 2}
            /\ \A k \in 1..Len(ps[1]) : ps[1][k] # <<>>
            /\ Len(ps) = 2 => (ps[2] # <<>> /\ ps[2][1] = <<"0">>)
            /\ (Answered6 /\ candidate # ZeroAddress) =>
                   /\ parts = ps
                   /\ Len(parts) = 2 => last.defined
                   /\ (OneMarker(candidate.chars) /\ Len(candidate.chars) - 1 \in Markers(candidate.chars))
                          => (Len(parts) = 2 /\ last.value = <<"0">> /\ last.rest = <<>>)

C10_Witness ==
    /\ Answered6
    /\ Len(parts) = 2
    /\ Len(parts[1]) = 7
    /\ last = [rest |-> <<>>, defined |-> TRUE, value |-> <<"0">>]

====
